---- MODULE Spec2Model ----
(***************************************************************************)
(* A model of the AIService handlers of the AI_RAG repository: queryLLM    *)
(* (vector search, schema-validated generation with one repair, address    *)
(* resolution with geocoding, route geometry, fallback URL) and            *)
(* populateCoordinates (batch geocoding with a one second delay); and of   *)
(* the findClosest handlers of AddressService (ranking in the application) *)
(* and of the generated AIService (ranking delegated to HANA).             *)
(*                                                                         *)
(* Every external call (HANA, the chat model, Nominatim, OSRM) is a        *)
(* suspension point: one action issues it, another receives its outcome,   *)
(* which is drawn from the outcomes the call can have.  Code that runs     *)
(* between two awaits is one action.                                       *)
(***************************************************************************)
EXTENDS Integers, Sequences, FiniteSets, TLC

\* ------------------------------------------------------------- bounds
\* Number of rows of the CLIENTS table.
NumEntities == 2
\* Longest relevantAddresses list the chat model returns.
MaxItems == 2
\* Clocks that measure elapsed seconds stop counting here.
TimeCap == 2
\* Longest list of valid addresses a link is built for.
MaxWaypoints == 5

\* ---------------------------------------------------------- constants
\* SQL NULL / JavaScript null for a coordinate.
NULL == -1
\* setTimeout(resolve, 1000), in seconds.
Delay == 1
\* OutputFixingParser: the number of repair calls after a parse failure.
Repairs == 1
\* embedding.slice(0, 768)
Dim == 768

IDs == 1..NumEntities
Reqs == {"r1", "r2"}

Min(a, b) == IF a < b THEN a ELSE b
Max(a, b) == IF a > b THEN a ELSE b

\* ------------------------------------------------------ JavaScript values
\* A JSON / JavaScript value with its type tag.
Num(n) == [t |-> "number", n |-> n, s |-> ""]
Str(s) == [t |-> "string", n |-> 0, s |-> s]
Undefined == [t |-> "undefined", n |-> 0, s |-> ""]
\* The request object itself (req), as the || operator yields it.
ReqObject == [t |-> "object", n |-> 0, s |-> "req"]

\* JavaScript truthiness of a value, as !v and v || w test it.
Truthy(v) ==
  CASE v.t = "string" -> v.s # ""
    [] v.t = "number" -> v.n # 0
    [] v.t = "object" -> TRUE
    [] OTHER -> FALSE

\* Truthiness of a coordinate column: null and 0 are both falsy.
TruthyCoord(c) == c # NULL /\ c # 0

\* ------------------------------------------------------------ the store
\* The descriptive columns of CLIENTS row i.
BaseRow(i) ==
  [ID |-> i, CompanyName |-> "Client " \o ToString(i),
   Address |-> "Rua " \o ToString(i), PostalCode |-> "1000",
   City |-> "Lisboa", Country |-> "Portugal"]

\* `${Address}, ${PostalCode} ${City}, ${Country}`
FullAddress(row) ==
  row.Address \o ", " \o row.PostalCode \o " " \o row.City \o ", " \o row.Country

\* What Nominatim answers for an address it knows: parseFloat of lat and lon.
\* The first client lies on the equator (latitude 0).
Nominatim(fullAddress) ==
  LET i == CHOOSE j \in IDs : FullAddress(BaseRow(j)) = fullAddress
  IN [lat |-> 2 * (i - 1), lon |-> 5 + i]

\* The coordinates a row may hold before any request.
StoredCoords ==
  { [Latitude |-> NULL, Longitude |-> NULL],
    [Latitude |-> 4, Longitude |-> NULL],
    [Latitude |-> 0, Longitude |-> 7],
    [Latitude |-> 4, Longitude |-> 7] }

\* a.ID.toString()
IdToString(i) == ToString(i)

\* --------------------------------------------------- the generation schema
\* Outputs the chat model may give.
\* Identifiers of rows, an identifier of no row, and entries the schema rejects:
\* a numeric identifier, a relevance below 0, a relevance above 1.
IdVals == { Str(IdToString(i)) : i \in IDs } \cup { Str("99") }
ConfVals == { Num(0), Num(11), Str("high") }
AnswerVals == { Str("route"), Undefined }
ItemVals ==
  { [addressId |-> a, relevance |-> Num(10)] : a \in IdVals } \cup
  { [addressId |-> Num(1), relevance |-> Num(10)],
    [addressId |-> Str("1"), relevance |-> Num(-1)],
    [addressId |-> Str("1"), relevance |-> Num(15)] }
ItemSeqs == UNION { [1..n -> ItemVals] : n \in 0..MaxItems }
\* Text that is not JSON.
Garbage ==
  [json |-> FALSE, answer |-> Undefined, confidence |-> Undefined,
   relevantAddresses |-> << >>]
Outputs ==
  { [json |-> TRUE, answer |-> a, confidence |-> c, relevantAddresses |-> s] :
      a \in AnswerVals, c \in ConfVals, s \in ItemSeqs } \cup { Garbage }
NoResponse == Garbage

\* A schema without .max(1).
ZNumberNoMax(v) == v.t = "number" /\ v.n >= 0

\* z.number().min(0).max(1); numbers are in tenths.
ZNumber01(v) == v.t = "number" /\ v.n >= 0 /\ v.n <= 10
\* z.string()
ZString(v) == v.t = "string"

\* StructuredOutputParser.fromZodSchema(outputSchema).parse succeeds.
SchemaValid(out) ==
  /\ out.json
  /\ ZString(out.answer)
  /\ ZNumber01(out.confidence)
  /\ \A k \in 1..Len(out.relevantAddresses) :
       /\ ZString(out.relevantAddresses[k].addressId)
       /\ ZNumber01(out.relevantAddresses[k].relevance)

\* A parser that asks for a repair a second time.
RepairAllowedTwice(nFailed) == nFailed < Repairs + 1

\* OutputFixingParser.parse: with nFailed outputs already rejected, is the model
\* asked to repair one more?
RepairAllowed(nFailed) == nFailed < Repairs

VARIABLES
  store,      \* CLIENTS: ID -> row
  kind,       \* per request: "idle", "queryLLM" or "populateCoordinates"
  query,      \* const query = req.data?.prompt || req
  stage,      \* the stage of the pipeline the request is in
  pending,    \* what the request's flow is suspended on
  status,     \* [code, message]: 0 while running, 200 returned, else req.reject
  calls,      \* external calls issued so far, by kind
  valids,     \* for each model output parsed so far, whether it was valid
  response,   \* the generation result accepted by the parser
  tasks,      \* the async callbacks of Promise.all, one per relevantAddresses entry
  valid,      \* validAddresses
  routeArg,   \* the coordinate list sent to OSRM
  routeGeometry, \* what getRouteGeometry returned
  result,     \* what the handler returned
  clients,    \* populateCoordinates: the rows selected
  idx,        \* populateCoordinates: position of the loop in clients
  outcomes,   \* populateCoordinates: the geocoder's outcome per client processed
  coords,     \* populateCoordinates: coords of the client being processed
  results,    \* populateCoordinates: results.updated and results.failed
  clock,      \* populateCoordinates: seconds left to sleep, since the last geocoding call ended, since the first began
  link,       \* a list of valid addresses and the mapsUrl built for it
  ranking,    \* the findClosest requests: inputs, position and reply of each handler
  gap         \* least time between the end of a geocoding call and the start of the next; time from first to last start

vars ==
  << store, kind, query, stage, pending, status, calls, valids, response, tasks,
     valid, routeArg, routeGeometry, result, clients, idx, outcomes, coords, results, clock, gap,
     link, ranking >>
\* The variables the handlers of AIService.queryLLM and populateCoordinates leave alone.
otherVars == << link, ranking >>

NoCalls == [search |-> 0, model |-> 0, select |-> 0, geocode |-> 0, route |-> 0, update |-> 0]
NoStatus == [code |-> 0, message |-> ""]
NoCoords == [lat |-> NULL, lon |-> NULL]
NoResult ==
  [message |-> "", mapsUrl |-> "", waypoints |-> << >>, routeGeometry |-> "unset",
   updated |-> << >>, failed |-> << >>]
NoClock == [sleepLeft |-> 0, sinceEnd |-> NULL, elapsed |-> NULL]
NoGap == [min |-> TimeCap, span |-> 0]
\* No link is being built; no findClosest request is being served.
NoLink == [validAddresses |-> << >>, mapsUrl |-> "unset"]
NoRanking == [pc |-> "idle"]

Prompts == { Undefined, Str(""), Str("route to clients 1 and 2") }

Init ==
  /\ \E c \in [IDs -> StoredCoords] :
       store = [i \in IDs |-> BaseRow(i) @@ c[i]]
  /\ \E k \in {"queryLLM", "populateCoordinates"} :
       kind = [r \in Reqs |-> IF r = "r1" THEN k ELSE "idle"]
  /\ query = [r \in Reqs |-> Undefined]
  /\ stage = [r \in Reqs |->
       CASE kind[r] = "queryLLM" -> "Validating"
         [] kind[r] = "populateCoordinates" -> "Running"
         [] OTHER -> "Idle"]
  /\ pending = [r \in Reqs |-> IF kind[r] = "idle" THEN "none" ELSE "start"]
  /\ status = [r \in Reqs |-> NoStatus]
  /\ calls = [r \in Reqs |-> NoCalls]
  /\ valids = [r \in Reqs |-> << >>]
  /\ response = [r \in Reqs |-> NoResponse]
  /\ tasks = [r \in Reqs |-> << >>]
  /\ valid = [r \in Reqs |-> << >>]
  /\ routeArg = [r \in Reqs |-> << >>]
  /\ routeGeometry = [r \in Reqs |-> "unset"]
  /\ result = [r \in Reqs |-> NoResult]
  /\ clients = [r \in Reqs |-> << >>]
  /\ idx = [r \in Reqs |-> 0]
  /\ outcomes = [r \in Reqs |-> << >>]
  /\ coords = [r \in Reqs |-> NoCoords]
  /\ results = [r \in Reqs |-> [updated |-> << >>, failed |-> << >>]]
  /\ clock = [r \in Reqs |-> NoClock]
  /\ gap = [r \in Reqs |-> NoGap]
  /\ link = NoLink
  /\ ranking = NoRanking

\* ------------------------------------------------------------- queryLLM
popVars == << clients, idx, outcomes, coords, results, clock >>
routeVars == << valid, routeArg, routeGeometry, result >>
genVars == << valids, response >>

\* return req.reject(code, message)
Reject(r, code, message) ==
  /\ stage' = [stage EXCEPT ![r] = "Errored"]
  /\ status' = [status EXCEPT ![r] = [code |-> code, message |-> message]]
  /\ pending' = [pending EXCEPT ![r] = "none"]

\* `Failed to process query: ${err.message}`
ProcessError(errMessage) == "Failed to process query: " \o errMessage
\* `Failed to populate coordinates: ${err.message}`
PopulateError(errMessage) == "Failed to populate coordinates: " \o errMessage

\* A handler that assembles the response right after resolution.
NextStageSkipsRoute(s) ==
  CASE s = "Validating" -> "Retrieving"
    [] s = "Retrieving" -> "Generating"
    [] s = "Generating" -> "Resolving"
    [] s = "Resolving" -> "Assembling"
    [] s = "Assembling" -> "Done"
    [] OTHER -> s

\* The stage that follows stage s in the body of queryLLM.
NextStage(s) ==
  CASE s = "Validating" -> "Retrieving"
    [] s = "Retrieving" -> "Generating"
    [] s = "Generating" -> "Resolving"
    [] s = "Resolving" -> "RouteBuilding"
    [] s = "RouteBuilding" -> "Assembling"
    [] s = "Assembling" -> "Done"
    [] OTHER -> s

Issue(r, call) == calls' = [calls EXCEPT ![r][call] = @ + 1]

\* const query = req.data?.prompt || req
QueryOf(p) == IF Truthy(p) THEN p ELSE ReqObject

\* Lines 143-148: the handler is called with a request whose data.prompt is p;
\* the query check, then the vector search is issued.
Validate(r) ==
  /\ kind[r] = "queryLLM" /\ pending[r] = "start"
  /\ \E p \in Prompts :
       /\ query' = [query EXCEPT ![r] = QueryOf(p)]
       /\ IF ~Truthy(QueryOf(p))
            THEN /\ Reject(r, 400, "query is required")
                 /\ UNCHANGED calls
            ELSE /\ stage' = [stage EXCEPT ![r] = NextStage(@)]
                 /\ pending' = [pending EXCEPT ![r] = "search"]
                 /\ Issue(r, "search")
                 /\ UNCHANGED status
  /\ UNCHANGED << store, kind, otherVars, genVars, tasks, routeVars, popVars, gap >>

\* A handler that reports a failed vector search and goes on to the chat model.
SearchReturnNoAbort(r) ==
  /\ pending[r] = "search"
  /\ \E ok \in BOOLEAN :
       /\ stage' = [stage EXCEPT ![r] = NextStage(@)]
       /\ pending' = [pending EXCEPT ![r] = "model"]
       /\ Issue(r, "model")
       /\ IF ok THEN UNCHANGED status
          ELSE status' = [status EXCEPT ![r] =
                 [code |-> 500, message |-> ProcessError("vector search failed")]]
  /\ UNCHANGED << store, kind, otherVars, query, genVars, tasks, routeVars, popVars, gap >>

\* runVectorSearch returns rows or throws; on rows the prompt is rendered and
\* the chain invokes the chat model.
SearchReturn(r) ==
  /\ pending[r] = "search"
  /\ \E ok \in BOOLEAN :
       IF ok
         THEN /\ stage' = [stage EXCEPT ![r] = NextStage(@)]
              /\ pending' = [pending EXCEPT ![r] = "model"]
              /\ Issue(r, "model")
              /\ UNCHANGED status
         ELSE /\ Reject(r, 500, ProcessError("vector search failed"))
              /\ UNCHANGED calls
  /\ UNCHANGED << store, kind, otherVars, query, genVars, tasks, routeVars, popVars, gap >>

\* The chat model answers (or the call throws); parserWithFix parses the text.
\* A valid text is accepted and the SELECT of the referenced rows is issued; an
\* invalid one is sent back to the model once; a second invalid one throws.
ModelReturn(r) ==
  /\ pending[r] = "model"
  /\ \/ /\ Reject(r, 500, ProcessError("model call failed"))
        /\ UNCHANGED << calls, genVars >>
     \/ \E out \in Outputs :
          IF SchemaValid(out)
            THEN /\ response' = [response EXCEPT ![r] = out]
                 /\ valids' = [valids EXCEPT ![r] = Append(@, TRUE)]
                 /\ stage' = [stage EXCEPT ![r] = NextStage(@)]
                 /\ pending' = [pending EXCEPT ![r] = "select"]
                 /\ Issue(r, "select")
                 /\ UNCHANGED status
            ELSE IF RepairAllowed(Len(valids[r]))
              THEN /\ valids' = [valids EXCEPT ![r] = Append(@, FALSE)]
                   /\ Issue(r, "model")
                   /\ UNCHANGED << response, stage, pending, status >>
              ELSE /\ valids' = [valids EXCEPT ![r] = Append(@, FALSE)]
                   /\ Reject(r, 500, ProcessError("Failed to parse"))
                   /\ UNCHANGED << response, calls >>
  /\ UNCHANGED << store, kind, otherVars, query, tasks, routeVars, popVars, gap >>

\* The async callback of one relevantAddresses entry, run up to its first await:
\* no row -> null; both coordinates truthy -> the row as it is; else the
\* geocoding call is issued.
NullTask ==
  [pc |-> "done", id |-> 0, companyName |-> "", address |-> "",
   lat |-> NULL, lon |-> NULL, geo |-> "none"]

NeedsGeocoding(lat, lon) == ~TruthyCoord(lat) \/ ~TruthyCoord(lon)

StartTask(item) ==
  LET found == { i \in IDs : IdToString(store[i].ID) = item.addressId.s }
  IN IF found = {} THEN NullTask
     ELSE LET addr == store[CHOOSE i \in found : TRUE]
          IN [pc |-> IF NeedsGeocoding(addr.Latitude, addr.Longitude)
                       THEN "geocode" ELSE "done",
              id |-> addr.ID, companyName |-> addr.CompanyName,
              address |-> FullAddress(addr),
              lat |-> addr.Latitude, lon |-> addr.Longitude, geo |-> "none"]

NumAt(ts, pc) == Cardinality({ k \in 1..Len(ts) : ts[k].pc = pc })

\* The SELECT of the referenced rows returns or throws; on rows, Promise.all
\* starts every callback at once.
SelectReturn(r) ==
  /\ kind[r] = "queryLLM" /\ pending[r] = "select"
  /\ \E ok \in BOOLEAN :
       IF ok
         THEN LET items == response[r].relevantAddresses
                  ts == [k \in 1..Len(items) |-> StartTask(items[k])]
                  n == NumAt(ts, "geocode")
              IN /\ tasks' = [tasks EXCEPT ![r] = ts]
                 /\ calls' = [calls EXCEPT ![r].geocode = @ + n]
                 /\ gap' = [gap EXCEPT ![r] =
                              IF n >= 2 THEN [min |-> 0, span |-> 0] ELSE @]
                 /\ pending' = [pending EXCEPT ![r] = "tasks"]
                 /\ UNCHANGED << stage, status >>
         ELSE /\ Reject(r, 500, ProcessError("select failed"))
              /\ UNCHANGED << tasks, calls, gap >>
  /\ UNCHANGED << store, kind, otherVars, query, genVars, routeVars, popVars >>

\* geocodeAddress returns for callback k: coordinates, or null on no match or
\* on a transport error.  With coordinates the UPDATE is issued.
TaskGeocodeReturn(r, k) ==
  /\ k \in 1..Len(tasks[r]) /\ tasks[r][k].pc = "geocode"
  /\ \E o \in {"match", "nomatch", "error"} :
       IF o = "match"
         THEN /\ tasks' = [tasks EXCEPT ![r][k].pc = "update", ![r][k].geo = "coords"]
              /\ Issue(r, "update")
         ELSE /\ tasks' = [tasks EXCEPT ![r][k].pc = "done", ![r][k].geo = "null"]
              /\ UNCHANGED calls
  /\ UNCHANGED << store, kind, otherVars, query, stage, pending, status, genVars, routeVars,
                  popVars, gap >>

\* An UPDATE that fills only the column that is NULL.
WriteCoordsMissingOnly(id, c) ==
  store' = [store EXCEPT ![id].Latitude = IF @ = NULL THEN c.lat ELSE @,
                         ![id].Longitude = IF @ = NULL THEN c.lon ELSE @]

\* UPDATE ... SET Latitude = ?, Longitude = ? WHERE ID = ?
WriteCoords(id, c) ==
  store' = [store EXCEPT ![id].Latitude = c.lat, ![id].Longitude = c.lon]

\* The UPDATE of callback k returns or throws.  A throw rejects Promise.all,
\* and the handler's catch rejects the request; the other callbacks go on.
TaskUpdateReturn(r, k) ==
  /\ k \in 1..Len(tasks[r]) /\ tasks[r][k].pc = "update"
  /\ \E ok \in BOOLEAN :
       IF ok
         THEN LET c == Nominatim(tasks[r][k].address)
              IN /\ WriteCoords(tasks[r][k].id, c)
                 /\ tasks' = [tasks EXCEPT ![r][k].pc = "done",
                                           ![r][k].lat = c.lat, ![r][k].lon = c.lon]
                 /\ UNCHANGED << stage, status, pending >>
         ELSE /\ tasks' = [tasks EXCEPT ![r][k].pc = "rejected"]
              /\ IF pending[r] = "tasks"
                   THEN Reject(r, 500, ProcessError("update failed"))
                   ELSE UNCHANGED << stage, status, pending >>
              /\ UNCHANGED store
  /\ UNCHANGED << kind, otherVars, query, calls, genVars, routeVars, popVars, gap >>

\* addr !== null && addr.lat && addr.lon
IsValidAddress(t) == t.id # 0 /\ TruthyCoord(t.lat) /\ TruthyCoord(t.lon)

\* coordinates.map(c => `${c.lon},${c.lat}`)
CoordsStr(vs) == [k \in 1..Len(vs) |-> << vs[k].lon, vs[k].lat >>]

\* A guard that lets a single coordinate through.
RouteCalledFromOne(n) == ~(n < 1)

\* getRouteGeometry: is the routing engine called for n coordinates?
RouteCalled(n) == ~(n < 2)

\* Promise.all has resolved: the valid addresses are filtered and
\* getRouteGeometry is called.
ResolveDone(r) ==
  /\ kind[r] = "queryLLM" /\ pending[r] = "tasks"
  /\ \A k \in 1..Len(tasks[r]) : tasks[r][k].pc = "done"
  /\ LET vs == SelectSeq(tasks[r], IsValidAddress)
     IN /\ valid' = [valid EXCEPT ![r] = vs]
        /\ stage' = [stage EXCEPT ![r] = NextStage(@)]
        /\ IF RouteCalled(Len(vs))
             THEN /\ routeArg' = [routeArg EXCEPT ![r] = CoordsStr(vs)]
                  /\ Issue(r, "route")
                  /\ pending' = [pending EXCEPT ![r] = "route"]
             ELSE /\ pending' = [pending EXCEPT ![r] = "routeNull"]
                  /\ UNCHANGED << routeArg, calls >>
  /\ UNCHANGED << store, kind, otherVars, query, status, genVars, tasks, routeGeometry,
                  result, popVars, gap >>

\* A getRouteGeometry without its try/catch: a transport error rejects the request.
RouteReturnThrows(r) ==
  /\ pending[r] \in {"route", "routeNull"}
  /\ \E o \in {"geometry", "noroute", "error"} :
       /\ pending[r] = "routeNull" => o = "noroute"
       /\ IF o = "error"
            THEN /\ Reject(r, 500, ProcessError("route failed"))
                 /\ UNCHANGED routeGeometry
            ELSE /\ routeGeometry' = [routeGeometry EXCEPT ![r] =
                                       IF o = "geometry" THEN "geometry" ELSE "null"]
                 /\ stage' = [stage EXCEPT ![r] = NextStage(@)]
                 /\ pending' = [pending EXCEPT ![r] = "assemble"]
                 /\ UNCHANGED status
  /\ UNCHANGED << store, kind, otherVars, query, calls, genVars, tasks, valid,
                  routeArg, result, popVars, gap >>

\* getRouteGeometry returns: the geometry of the first route, or null when
\* there is no route, the transport failed, or there were fewer than 2 points.
RouteReturn(r) ==
  /\ pending[r] \in {"route", "routeNull"}
  /\ \E o \in {"geometry", "noroute", "error"} :
       /\ pending[r] = "routeNull" => o = "noroute"
       /\ routeGeometry' = [routeGeometry EXCEPT ![r] =
                              IF o = "geometry" THEN "geometry" ELSE "null"]
  /\ stage' = [stage EXCEPT ![r] = NextStage(@)]
  /\ pending' = [pending EXCEPT ![r] = "assemble"]
  /\ UNCHANGED << store, kind, otherVars, query, status, calls, genVars, tasks, valid,
                  routeArg, result, popVars, gap >>

EncodeURIComponent(s) == "%(" \o s \o ")"

RECURSIVE JoinBar(_)
\* .map(addr => encodeURIComponent(addr.address)).join('|')
JoinBar(vs) ==
  IF Len(vs) = 0 THEN ""
  ELSE IF Len(vs) = 1 THEN EncodeURIComponent(vs[1].address)
  ELSE EncodeURIComponent(vs[1].address) \o "|" \o JoinBar(Tail(vs))

\* A slice that runs to the end of the list: validAddresses.slice(1).
InteriorToEnd(vs) == IF Len(vs) <= 1 THEN << >> ELSE SubSeq(vs, 2, Len(vs))

\* validAddresses.slice(1, -1)
Interior(vs) == IF Len(vs) <= 2 THEN << >> ELSE SubSeq(vs, 2, Len(vs) - 1)

\* The Google Maps URL of lines 263-273; '' when there is no valid address.
MapsUrl(vs) ==
  IF Len(vs) > 0
    THEN LET waypoints == JoinBar(Interior(vs))
         IN "https://www.google.com/maps/dir/?api=1&origin="
              \o EncodeURIComponent(vs[1].address)
              \o "&destination=" \o EncodeURIComponent(vs[Len(vs)].address)
              \o (IF waypoints # "" THEN "&waypoints=" \o waypoints ELSE "")
              \o "&travelmode=driving"
    ELSE ""

\* mapsUrl || 'No valid addresses found for mapping'
MapsUrlOrMessage(vs) ==
  IF MapsUrl(vs) # "" THEN MapsUrl(vs) ELSE "No valid addresses found for mapping"

\* Lines 262-290: the URL and the map data are added and the response returned.
Assemble(r) ==
  /\ pending[r] = "assemble"
  /\ result' = [result EXCEPT ![r] =
          [message |-> "",
           mapsUrl |-> MapsUrlOrMessage(valid[r]),
           waypoints |-> [k \in 1..Len(valid[r]) |->
                            [id |-> valid[r][k].id,
                             companyName |-> valid[r][k].companyName,
                             address |-> valid[r][k].address,
                             coordinates |-> << valid[r][k].lat, valid[r][k].lon >>]],
           routeGeometry |-> routeGeometry[r],
           updated |-> << >>, failed |-> << >>]]
  /\ stage' = [stage EXCEPT ![r] = NextStage(@)]
  /\ status' = [status EXCEPT ![r] = [code |-> 200, message |-> ""]]
  /\ pending' = [pending EXCEPT ![r] = "none"]
  /\ UNCHANGED << store, kind, otherVars, query, calls, genVars, tasks, valid, routeArg,
                  routeGeometry, popVars, gap >>

\* -------------------------------------------------- populateCoordinates
qVars == << query, valids, response, tasks, valid, routeArg, routeGeometry >>

\* A loop that does not wait.
SleepTimeNone == Delay - 1

\* Seconds the loop sleeps after each client.
SleepTime == Delay

\* The elapsed-time clock stops counting here.
ElapsedCap == NumEntities * TimeCap

\* WHERE Latitude IS NULL OR Longitude IS NULL
LacksCoordinates(i) == store[i].Latitude = NULL \/ store[i].Longitude = NULL

\* The rows the SELECT of line 96 returns, in ID order.
SelectClients ==
  LET all == [i \in 1..NumEntities |-> i]
      ids == SelectSeq(all, LacksCoordinates)
  IN [k \in 1..Len(ids) |->
        [ID |-> ids[k], Address |-> store[ids[k]].Address,
         PostalCode |-> store[ids[k]].PostalCode, City |-> store[ids[k]].City,
         Country |-> store[ids[k]].Country]]

\* The handler starts: the SELECT of the clients without coordinates is issued.
PopStart(r) ==
  /\ kind[r] = "populateCoordinates" /\ pending[r] = "start"
  /\ Issue(r, "select")
  /\ pending' = [pending EXCEPT ![r] = "select"]
  /\ UNCHANGED << store, kind, otherVars, stage, status, qVars, result, popVars, gap >>

\* The SELECT returns or throws.  No rows: a message is returned.  Else the
\* loop starts and the first geocoding call is issued.
PopSelectReturn(r) ==
  /\ kind[r] = "populateCoordinates" /\ pending[r] = "select"
  /\ \E ok \in BOOLEAN :
       IF ~ok
         THEN /\ Reject(r, 500, PopulateError("select failed"))
              /\ UNCHANGED << calls, clients, idx, clock, result >>
         ELSE LET cs == SelectClients
              IN IF Len(cs) = 0
                   THEN /\ result' = [result EXCEPT ![r].message =
                             "All clients already have coordinates or no clients found."]
                        /\ stage' = [stage EXCEPT ![r] = "Done"]
                        /\ status' = [status EXCEPT ![r] = [code |-> 200, message |-> ""]]
                        /\ pending' = [pending EXCEPT ![r] = "none"]
                        /\ UNCHANGED << calls, clients, idx, clock >>
                   ELSE /\ clients' = [clients EXCEPT ![r] = cs]
                        /\ idx' = [idx EXCEPT ![r] = 1]
                        /\ Issue(r, "geocode")
                        /\ pending' = [pending EXCEPT ![r] = "geocode"]
                        /\ clock' = [clock EXCEPT ![r].elapsed = 0]
                        /\ UNCHANGED << stage, status, result >>
  /\ UNCHANGED << store, kind, otherVars, qVars, outcomes, coords, results, gap >>

\* geocodeAddress returns for the current client.  Coordinates: the UPDATE is
\* issued.  null: the client is pushed to failed and the loop sleeps.
PopGeocodeReturn(r) ==
  /\ kind[r] = "populateCoordinates" /\ pending[r] = "geocode"
  /\ \E o \in {"match", "nomatch", "error"} :
       LET client == clients[r][idx[r]]
           fullAddress == FullAddress(client)
       IN /\ outcomes' = [outcomes EXCEPT ![r] = Append(@, o)]
          /\ IF o = "match"
               THEN /\ coords' = [coords EXCEPT ![r] = Nominatim(fullAddress)]
                    /\ Issue(r, "update")
                    /\ pending' = [pending EXCEPT ![r] = "update"]
                    /\ clock' = [clock EXCEPT ![r].sinceEnd = 0]
                    /\ UNCHANGED results
               ELSE /\ results' = [results EXCEPT ![r].failed =
                                     Append(@, [id |-> client.ID, address |-> fullAddress])]
                    /\ pending' = [pending EXCEPT ![r] = "sleep"]
                    /\ clock' = [clock EXCEPT ![r].sinceEnd = 0,
                                              ![r].sleepLeft = SleepTime]
                    /\ UNCHANGED << coords, calls >>
  /\ UNCHANGED << store, kind, otherVars, stage, status, qVars, result, clients, idx, gap >>

\* The UPDATE returns or throws.  Returned: the client is pushed to updated and
\* the loop sleeps.  Thrown: the handler's catch rejects the request.
PopUpdateReturn(r) ==
  /\ kind[r] = "populateCoordinates" /\ pending[r] = "update"
  /\ \E ok \in BOOLEAN :
       LET client == clients[r][idx[r]]
       IN IF ok
            THEN /\ WriteCoords(client.ID, coords[r])
                 /\ results' = [results EXCEPT ![r].updated =
                      Append(@, [id |-> client.ID, address |-> FullAddress(client),
                                 lat |-> coords[r].lat, lon |-> coords[r].lon])]
                 /\ pending' = [pending EXCEPT ![r] = "sleep"]
                 /\ clock' = [clock EXCEPT ![r].sleepLeft = SleepTime]
                 /\ UNCHANGED << stage, status >>
            ELSE /\ Reject(r, 500, PopulateError("update failed"))
                 /\ UNCHANGED << store, results, clock >>
  /\ UNCHANGED << kind, otherVars, calls, qVars, result, clients, idx, outcomes, coords, gap >>

\* The timer has fired: the next client's geocoding call is issued, or after
\* the last client the result is returned.
PopSleepDone(r) ==
  /\ kind[r] = "populateCoordinates" /\ pending[r] = "sleep"
  /\ clock[r].sleepLeft = 0
  /\ IF idx[r] < Len(clients[r])
       THEN /\ idx' = [idx EXCEPT ![r] = @ + 1]
            /\ Issue(r, "geocode")
            /\ pending' = [pending EXCEPT ![r] = "geocode"]
            /\ gap' = [gap EXCEPT ![r] = [min |-> Min(@.min, clock[r].sinceEnd),
                                          span |-> clock[r].elapsed]]
            /\ UNCHANGED << stage, status, result >>
       ELSE /\ result' = [result EXCEPT ![r].message = "Processed clients.",
                                        ![r].updated = results[r].updated,
                                        ![r].failed = results[r].failed]
            /\ stage' = [stage EXCEPT ![r] = "Done"]
            /\ status' = [status EXCEPT ![r] = [code |-> 200, message |-> ""]]
            /\ pending' = [pending EXCEPT ![r] = "none"]
            /\ UNCHANGED << idx, calls, gap >>
  /\ UNCHANGED << store, kind, otherVars, qVars, clients, outcomes, coords, results, clock >>

\* One second passes for every populateCoordinates loop that is under way.
Tick ==
  /\ clock' = [r \in Reqs |->
       IF kind[r] = "populateCoordinates" /\ pending[r] \in {"geocode", "update", "sleep"}
         THEN [sleepLeft |-> Max(0, clock[r].sleepLeft - 1),
               sinceEnd |-> IF clock[r].sinceEnd = NULL THEN NULL
                            ELSE Min(TimeCap, clock[r].sinceEnd + 1),
               elapsed |-> Min(ElapsedCap, clock[r].elapsed + 1)]
         ELSE clock[r]]
  /\ clock' # clock
  /\ UNCHANGED << store, kind, otherVars, stage, pending, status, calls, qVars, result,
                  clients, idx, outcomes, coords, results, gap >>

\* ------------------------------------------------------- specification
Next ==
  \/ \E r \in Reqs : Validate(r)
  \/ \E r \in Reqs : SearchReturn(r)
  \/ \E r \in Reqs : ModelReturn(r)
  \/ \E r \in Reqs : SelectReturn(r)
  \/ \E r \in Reqs : \E k \in 1..MaxItems : TaskGeocodeReturn(r, k)
  \/ \E r \in Reqs : \E k \in 1..MaxItems : TaskUpdateReturn(r, k)
  \/ \E r \in Reqs : ResolveDone(r)
  \/ \E r \in Reqs : RouteReturn(r)
  \/ \E r \in Reqs : Assemble(r)
  \/ \E r \in Reqs : PopStart(r)
  \/ \E r \in Reqs : PopSelectReturn(r)
  \/ \E r \in Reqs : PopGeocodeReturn(r)
  \/ \E r \in Reqs : PopUpdateReturn(r)
  \/ \E r \in Reqs : PopSleepDone(r)
  \/ Tick

Spec == Init /\ [][Next]_vars

\* Every external call returns or fails and every timer fires.
FairSpec == Spec /\ WF_vars(Next)

\* ---------------------------------------------------------- findClosest
\* A vector of n numbers, all 0 but a at position i and b at position j.
Spike(n, i, a, j, b) == [k \in 1..n |-> IF k = i THEN a ELSE IF k = j THEN b ELSE 0]

\* embResp.data[0].embedding: what the embeddings API may return for a prompt.
ProviderVectors ==
  { Spike(Dim + 2, 1, 3, 2, 4),
    Spike(Dim + 2, 1, 3, Dim + 1, 4),
    Spike(2, 1, 3, 2, 4),
    Spike(Dim, 1, 0, 2, 0) }

\* The EMBEDDING column of a row: NULL, the text of a JSON array, that text in
\* double quotes, text that is not JSON (v: the numbers written in it), or the
\* text of a JSON value that is not an array.
StoredEmbeddings ==
  { [t |-> "null", v |-> << >>],
    [t |-> "json", v |-> Spike(Dim, 1, 1, 2, 0)],
    [t |-> "json", v |-> Spike(Dim, 1, 2, 2, 0)],
    [t |-> "quoted", v |-> Spike(Dim, 1, 3, 2, 4)],
    [t |-> "json", v |-> Spike(Dim, 1, 0, 2, 0)],
    [t |-> "json", v |-> Spike(Dim, 1, -1, 2, 0)],
    [t |-> "json", v |-> << 3, 4 >>],
    [t |-> "text", v |-> << >>] }

RECURSIVE SumOver(_, _, _, _)
\* reduce((acc, val) => acc + a[i] * b[i], 0) over positions lo..hi
SumOver(a, b, lo, hi) ==
  IF lo > hi THEN 0
  ELSE IF lo = hi THEN a[lo] * b[lo]
  ELSE LET mid == (lo + hi) \div 2
       IN SumOver(a, b, lo, mid) + SumOver(a, b, mid + 1, hi)

SumSq(v) == SumOver(v, v, 1, Len(v))

\* A JavaScript array of numbers num[k] / sqrt(den2); den2 = 0: no array yet.
NoVector == [num |-> << >>, den2 |-> 0]

\* embedding.slice(0, 768)
Slice(embedding) == [num |-> SubSeq(embedding, 1, Min(Len(embedding), Dim)), den2 |-> 1]

\* normalizeL2(vec): every component divided by the norm, unless the norm is 0.
NormalizeL2(vec) ==
  LET norm2 == SumSq(vec.num)
  IN IF norm2 = 0 THEN vec ELSE [num |-> vec.num, den2 |-> norm2]

\* parseEmbedding(raw): an array, or null.
ParseEmbedding(raw) ==
  CASE raw.t = "null" -> [ok |-> FALSE, arr |-> << >>]
    [] raw.t = "json" -> [ok |-> TRUE, arr |-> raw.v]
    [] raw.t = "quoted" -> [ok |-> TRUE, arr |-> raw.v]
    [] raw.t = "text" -> IF Len(raw.v) > 0 THEN [ok |-> TRUE, arr |-> raw.v]
                         ELSE [ok |-> FALSE, arr |-> << >>]
    [] OTHER -> [ok |-> FALSE, arr |-> << >>]

\* cosineSim(a, b) = d / sqrt(q); NaN when a norm is 0.
NaN == [t |-> "NaN", d |-> 0, q |-> 0]
MinusInfinity == [t |-> "-Infinity", d |-> 0, q |-> 0]
CosineSim(a, b) ==
  LET q == SumSq(a.num) * SumSq(b)
  IN IF q = 0 THEN NaN
     ELSE [t |-> "number", d |-> SumOver(a.num, b, 1, Len(a.num)), q |-> q]

\* x > y for two numbers d / sqrt(q).
GreaterNumber(x, y) ==
  IF x.d >= 0
    THEN IF y.d < 0 THEN TRUE ELSE x.d * x.d * y.q > y.d * y.d * x.q
    ELSE IF y.d >= 0 THEN FALSE ELSE x.d * x.d * y.q < y.d * y.d * x.q

\* similarity >= bestScore: the last of several equal candidates would win.
BetterOrEqual(similarity, bestScore) ==
  /\ similarity.t = "number"
  /\ \/ bestScore.t = "-Infinity"
     \/ ~GreaterNumber(bestScore, similarity)

\* similarity > bestScore
Better(similarity, bestScore) ==
  /\ similarity.t = "number"
  /\ \/ bestScore.t = "-Infinity"
     \/ GreaterNumber(similarity, bestScore)

RECURSIVE Scan(_, _, _, _, _)
\* The loop `for (const a of addrs)` from position i on; best = 0 is null.
Scan(addrs, userEmbedding, i, best, bestScore) ==
  IF i > Len(addrs) THEN best
  ELSE LET dbEmb == ParseEmbedding(addrs[i].EMBEDDING)
       IN IF ~dbEmb.ok \/ Len(dbEmb.arr) # Len(userEmbedding.num)
            THEN Scan(addrs, userEmbedding, i + 1, best, bestScore)
            ELSE LET similarity == CosineSim(userEmbedding, dbEmb.arr)
                 IN IF Better(similarity, bestScore)
                      THEN Scan(addrs, userEmbedding, i + 1, addrs[i].ID, similarity)
                      ELSE Scan(addrs, userEmbedding, i + 1, best, bestScore)

\* ------------------------------------------------------------ mapsUrl
\* No queryLLM or populateCoordinates request is being served.
NoRequest ==
  /\ store = [i \in IDs |-> BaseRow(i) @@ [Latitude |-> NULL, Longitude |-> NULL]]
  /\ kind = [r \in Reqs |-> "idle"]
  /\ query = [r \in Reqs |-> Undefined]
  /\ stage = [r \in Reqs |-> "Idle"]
  /\ pending = [r \in Reqs |-> "none"]
  /\ status = [r \in Reqs |-> NoStatus]
  /\ calls = [r \in Reqs |-> NoCalls]
  /\ valids = [r \in Reqs |-> << >>]
  /\ response = [r \in Reqs |-> NoResponse]
  /\ tasks = [r \in Reqs |-> << >>]
  /\ valid = [r \in Reqs |-> << >>]
  /\ routeArg = [r \in Reqs |-> << >>]
  /\ routeGeometry = [r \in Reqs |-> "unset"]
  /\ result = [r \in Reqs |-> NoResult]
  /\ clients = [r \in Reqs |-> << >>]
  /\ idx = [r \in Reqs |-> 0]
  /\ outcomes = [r \in Reqs |-> << >>]
  /\ coords = [r \in Reqs |-> NoCoords]
  /\ results = [r \in Reqs |-> [updated |-> << >>, failed |-> << >>]]
  /\ clock = [r \in Reqs |-> NoClock]
  /\ gap = [r \in Reqs |-> NoGap]

requestVars ==
  << store, kind, query, stage, pending, status, calls, valids, response, tasks,
     valid, routeArg, routeGeometry, result, clients, idx, outcomes, coords, results,
     clock, gap >>

\* The valid addresses of a response: any list of rows with coordinates.
ValidAddressLists ==
  UNION { [1..n -> { [address |-> FullAddress(BaseRow(i))] : i \in IDs }] :
            n \in 0..MaxWaypoints }

LinkInit ==
  /\ NoRequest
  /\ ranking = NoRanking
  /\ \E vs \in ValidAddressLists : link = [validAddresses |-> vs, mapsUrl |-> "unset"]

\* Lines 262-278 applied to the list.
BuildMapsUrl ==
  /\ link.mapsUrl = "unset"
  /\ link' = [link EXCEPT !.mapsUrl = MapsUrlOrMessage(link.validAddresses)]
  /\ UNCHANGED << requestVars, ranking >>

LinkNext == BuildMapsUrl

LinkSpec == LinkInit /\ [][LinkNext]_vars

\* ------------------------------------------------- findClosest handlers
NoReply == [code |-> 0, id |-> 0, message |-> ""]
\* req.reject(code, message)
Rejected(code, message) == [code |-> code, id |-> 0, message |-> message]
\* return best / return result[0]; id = 0 is null.
Returned(id) == [code |-> 200, id |-> id, message |-> ""]
FindClosestError(errMessage) == "Failed to find closest address: " \o errMessage

\* The rows of the addresses table, in the order the SELECT returns them.
AddressTables ==
  { [i \in IDs |-> [ID |-> i, EMBEDDING |-> e[i]]] : e \in [IDs -> StoredEmbeddings] }

RankInit ==
  /\ NoRequest
  /\ link = NoLink
  /\ \E prompt \in {"", "Rua 1"}, embedding \in ProviderVectors, addrs \in AddressTables :
       ranking =
         [pc |-> "serving", prompt |-> prompt, embedding |-> embedding, addrs |-> addrs,
          app |-> [pc |-> "start", userEmbedding |-> NoVector, reply |-> NoReply],
          del |-> [pc |-> "start", userEmbedding |-> NoVector, reply |-> NoReply],
          search |-> [pc |-> "start", queryVector |-> NoVector]]

\* AddressService.onFindClosest, up to the embeddings call.  The requests
\* share nothing but the inputs and are served one after the other.
AppStart ==
  /\ ranking.pc = "serving" /\ ranking.search.pc = "done" /\ ranking.app.pc = "start"
  /\ ranking' =
       IF ranking.prompt = ""
         THEN [ranking EXCEPT !.app.pc = "done",
                              !.app.reply = Rejected(400, "prompt is required")]
         ELSE [ranking EXCEPT !.app.pc = "embedding"]
  /\ UNCHANGED << requestVars, link >>

\* The embeddings call returns or throws; the vector is cut and normalized and
\* the SELECT of all addresses is issued.
AppEmbeddingReturn ==
  /\ ranking.pc = "serving" /\ ranking.app.pc = "embedding"
  /\ \E ok \in BOOLEAN :
       ranking' =
         IF ok
           THEN [ranking EXCEPT !.app.pc = "select",
                                !.app.userEmbedding = NormalizeL2(Slice(ranking.embedding))]
           ELSE [ranking EXCEPT !.app.pc = "done",
                                !.app.reply = Rejected(500, FindClosestError("embedding failed"))]
  /\ UNCHANGED << requestVars, link >>

\* The SELECT returns or throws; the rows are scanned and the best returned.
AppSelectReturn ==
  /\ ranking.pc = "serving" /\ ranking.app.pc = "select"
  /\ \E ok \in BOOLEAN :
       ranking' =
         IF ok
           THEN [ranking EXCEPT !.app.pc = "done",
                   !.app.reply = Returned(Scan(ranking.addrs, ranking.app.userEmbedding,
                                               1, 0, MinusInfinity))]
           ELSE [ranking EXCEPT !.app.pc = "done",
                                !.app.reply = Rejected(500, FindClosestError("select failed"))]
  /\ UNCHANGED << requestVars, link >>

\* The rows WHERE "Embedding" IS NOT NULL.
Embedded(addrs) == { i \in 1..Len(addrs) : ParseEmbedding(addrs[i].EMBEDDING).ok }
EmbeddingOf(addrs, i) == ParseEmbedding(addrs[i].EMBEDDING).arr

HanaAnswer(t, i) == [t |-> t, i |-> i]

\* What HANA may answer to SELECT ... COSINE_SIMILARITY("Embedding",
\* TO_REAL_VECTOR(?)) ... ORDER BY similarity DESC LIMIT 1: no row; an error for
\* vectors of different dimensions; one of the rows of highest similarity; and
\* for a vector of norm 0 an error or any row.
HanaClosest(addrs, userEmbedding) ==
  LET rows == Embedded(addrs)
      sim == [i \in rows |-> CosineSim(userEmbedding, EmbeddingOf(addrs, i))]
  IN IF rows = {} THEN { HanaAnswer("empty", 0) }
     ELSE IF \E i \in rows : Len(EmbeddingOf(addrs, i)) # Len(userEmbedding.num)
       THEN { HanaAnswer("error", 0) }
     ELSE IF \E i \in rows : sim[i] = NaN
       THEN { HanaAnswer("error", 0) } \cup { HanaAnswer("row", i) : i \in rows }
     ELSE { HanaAnswer("row", i) :
              i \in { k \in rows : \A j \in rows : ~GreaterNumber(sim[j], sim[k]) } }

\* AIService.onFindClosest of the generated service, up to getEmbedding.
DelStart ==
  /\ ranking.pc = "serving" /\ ranking.app.pc = "done" /\ ranking.del.pc = "start"
  /\ ranking' =
       IF ranking.prompt = ""
         THEN [ranking EXCEPT !.del.pc = "done",
                              !.del.reply = Rejected(400, "prompt is required")]
         ELSE [ranking EXCEPT !.del.pc = "embedding"]
  /\ UNCHANGED << requestVars, link >>

\* getEmbedding returns or throws; the vector is cut and normalized and the
\* ranking query is issued.
DelEmbeddingReturn ==
  /\ ranking.pc = "serving" /\ ranking.del.pc = "embedding"
  /\ \E ok \in BOOLEAN :
       ranking' =
         IF ok
           THEN [ranking EXCEPT !.del.pc = "query",
                                !.del.userEmbedding = NormalizeL2(Slice(ranking.embedding))]
           ELSE [ranking EXCEPT !.del.pc = "done",
                                !.del.reply = Rejected(500, FindClosestError("embedding failed"))]
  /\ UNCHANGED << requestVars, link >>

\* The ranking query returns or throws: no row is a 404, else result[0].
DelQueryReturn ==
  /\ ranking.pc = "serving" /\ ranking.del.pc = "query"
  /\ \E o \in HanaClosest(ranking.addrs, ranking.del.userEmbedding)
                \cup { HanaAnswer("failed", 0) } :
       ranking' =
         [ranking EXCEPT !.del.pc = "done",
            !.del.reply =
              CASE o.t = "failed" -> Rejected(500, FindClosestError("query failed"))
                [] o.t = "error" -> Rejected(500, FindClosestError("invalid vector"))
                [] o.t = "empty" -> Rejected(404, "No matching address found")
                [] OTHER -> Returned(ranking.addrs[o.i].ID)]
  /\ UNCHANGED << requestVars, link >>

\* runVectorSearch of the generated service: getEmbedding returns or throws;
\* the vector is cut and the search query is issued with it.
SearchEmbeddingReturn ==
  /\ ranking.pc = "serving" /\ ranking.search.pc = "start"
  /\ \E ok \in BOOLEAN :
       ranking' =
         IF ok
           THEN [ranking EXCEPT !.search.pc = "query",
                                !.search.queryVector = Slice(ranking.embedding)]
           ELSE [ranking EXCEPT !.search.pc = "done"]
  /\ UNCHANGED << requestVars, link >>

\* The search query returns or throws, and runVectorSearch with it.
SearchQueryReturn ==
  /\ ranking.pc = "serving" /\ ranking.search.pc = "query"
  /\ ranking' = [ranking EXCEPT !.search.pc = "done", !.search.queryVector = NoVector]
  /\ UNCHANGED << requestVars, link >>

RankNext ==
  \/ AppStart
  \/ AppEmbeddingReturn
  \/ AppSelectReturn
  \/ DelStart
  \/ DelEmbeddingReturn
  \/ DelQueryReturn
  \/ SearchEmbeddingReturn
  \/ SearchQueryReturn

RankSpec == RankInit /\ [][RankNext]_vars

\* ------------------------------------------------ concurrent resolution
\* Two requests served at once on the same CLIENTS table.  A queryLLM request
\* is taken up where parserWithFix has accepted a generation result and the
\* SELECT of the referenced rows is in flight (line 224); a populateCoordinates
\* request at its start.  No row holds two truthy coordinates yet.
UnresolvedCoords ==
  { c \in StoredCoords : NeedsGeocoding(c.Latitude, c.Longitude) }

\* The generation results accepted by the parser that name rows of the table.
AcceptedOutputs ==
  { out \in Outputs :
      /\ SchemaValid(out) /\ out.answer = Str("route")
      /\ Len(out.relevantAddresses) >= 1
      /\ \A k \in 1..Len(out.relevantAddresses) :
           \E i \in IDs : out.relevantAddresses[k].addressId = Str(IdToString(i)) }

RaceInit ==
  /\ \E c \in [IDs -> UnresolvedCoords] :
       store = [i \in IDs |-> BaseRow(i) @@ c[i]]
  /\ kind \in { f \in [Reqs -> {"queryLLM", "populateCoordinates"}] :
                  f["r1"] = "populateCoordinates" => f["r2"] = "populateCoordinates" }
  /\ query = [r \in Reqs |->
       IF kind[r] = "queryLLM" THEN Str("route to clients 1 and 2") ELSE Undefined]
  /\ stage = [r \in Reqs |-> IF kind[r] = "queryLLM" THEN "Resolving" ELSE "Running"]
  /\ pending = [r \in Reqs |-> IF kind[r] = "queryLLM" THEN "select" ELSE "start"]
  /\ status = [r \in Reqs |-> NoStatus]
  /\ calls = [r \in Reqs |->
       IF kind[r] = "queryLLM"
         THEN [NoCalls EXCEPT !.search = 1, !.model = 1, !.select = 1]
         ELSE NoCalls]
  /\ valids = [r \in Reqs |-> IF kind[r] = "queryLLM" THEN << TRUE >> ELSE << >>]
  /\ \E out \in [Reqs -> AcceptedOutputs] :
       response = [r \in Reqs |-> IF kind[r] = "queryLLM" THEN out[r] ELSE NoResponse]
  /\ tasks = [r \in Reqs |-> << >>]
  /\ valid = [r \in Reqs |-> << >>]
  /\ routeArg = [r \in Reqs |-> << >>]
  /\ routeGeometry = [r \in Reqs |-> "unset"]
  /\ result = [r \in Reqs |-> NoResult]
  /\ clients = [r \in Reqs |-> << >>]
  /\ idx = [r \in Reqs |-> 0]
  /\ outcomes = [r \in Reqs |-> << >>]
  /\ coords = [r \in Reqs |-> NoCoords]
  /\ results = [r \in Reqs |-> [updated |-> << >>, failed |-> << >>]]
  /\ clock = [r \in Reqs |-> NoClock]
  /\ gap = [r \in Reqs |-> NoGap]
  /\ link = NoLink
  /\ ranking = NoRanking

RaceNext ==
  \/ \E r \in Reqs : SelectReturn(r)
  \/ \E r \in Reqs : \E k \in 1..MaxItems : TaskGeocodeReturn(r, k)
  \/ \E r \in Reqs : \E k \in 1..MaxItems : TaskUpdateReturn(r, k)
  \/ \E r \in Reqs : ResolveDone(r)
  \/ \E r \in Reqs : RouteReturn(r)
  \/ \E r \in Reqs : Assemble(r)
  \/ \E r \in Reqs : PopStart(r)
  \/ \E r \in Reqs : PopSelectReturn(r)
  \/ \E r \in Reqs : PopGeocodeReturn(r)
  \/ \E r \in Reqs : PopUpdateReturn(r)
  \/ \E r \in Reqs : PopSleepDone(r)
  \/ Tick

RaceSpec == RaceInit /\ [][RaceNext]_vars

\* --------------------------------------------------------- properties
IsQuery(r) == kind[r] = "queryLLM"
IsPopulate(r) == kind[r] = "populateCoordinates"
\* The request's prompt was missing or empty: only then is query the request.
PromptWasEmpty(r) == IsQuery(r) /\ pending[r] # "start" /\ query[r] = ReqObject
Accepted(r) == response[r] # NoResponse
\* A number in [0,1], in tenths.
InUnitInterval(v) == v.t = "number" /\ 0 <= v.n /\ v.n <= 10

\* C1: a queryLLM request whose prompt is missing or empty is rejected with
\* status 400 and makes no vector search, model, geocoding, routing or store call.
C1_EmptyQueryRejected ==
  \A r \in Reqs :
    PromptWasEmpty(r) => status[r].code = 400 /\ calls[r] = NoCalls

\* C2: a request that reaches generation invokes the model once or twice, never
\* more; the second invocation happens exactly when the first output failed
\* validation; a second invalid output ends the request with an error and no
\* further invocation.
C2_OneOrTwoModelCalls ==
  \A r \in Reqs :
    IsQuery(r) =>
      /\ calls[r].model <= 2
      /\ Len(valids[r]) <= calls[r].model
      /\ stage[r] \in {"Generating", "Resolving", "RouteBuilding", "Assembling", "Done"}
           => calls[r].model >= 1
      /\ calls[r].model = 2 <=> (Len(valids[r]) >= 1 /\ ~valids[r][1])
      /\ (Len(valids[r]) = 2 /\ ~valids[r][2])
           => /\ stage[r] = "Errored" /\ status[r].code = 500
              /\ ~Accepted(r)
      /\ Accepted(r) <=> (Len(valids[r]) >= 1 /\ valids[r][Len(valids[r])])

\* The repaired output was invalid as well.
C2_RepairFailed ==
  \E r \in Reqs :
    IsQuery(r) /\ valids[r] = << FALSE, FALSE >> /\ calls[r].model = 2
      /\ stage[r] = "Errored"

\* C3: every generation result the request accepts has a confidence in [0,1]
\* and, in every relevantAddresses entry, a string identifier and a relevance
\* in [0,1].
C3_AcceptedResultInRange ==
  \A r \in Reqs :
    Accepted(r) =>
      /\ InUnitInterval(response[r].confidence)
      /\ \A k \in 1..Len(response[r].relevantAddresses) :
           /\ response[r].relevantAddresses[k].addressId.t = "string"
           /\ InUnitInterval(response[r].relevantAddresses[k].relevance)

\* A result at the bounds of the interval was accepted and returned.
C3_BoundaryResultReturned ==
  \E r \in Reqs :
    /\ stage[r] = "Done" /\ Accepted(r)
    /\ response[r].confidence.n = 0
    /\ Len(response[r].relevantAddresses) = MaxItems
    /\ response[r].relevantAddresses[1].relevance.n = 10

Stages == << "Validating", "Retrieving", "Generating", "Resolving", "RouteBuilding",
             "Assembling", "Done" >>
StageSteps ==
  { << Stages[k], Stages[k + 1] >> : k \in 1..(Len(Stages) - 1) } \cup
  { << Stages[k], "Errored" >> : k \in 1..(Len(Stages) - 1) }

\* The stage of a request changes only to the next stage or to Errored, and a
\* request that is Done or Errored keeps its stage, status and result.
StagesAdvanceInOrder ==
  [][\A r \in Reqs :
       IsQuery(r) =>
         /\ stage'[r] # stage[r] => << stage[r], stage'[r] >> \in StageSteps
         /\ stage[r] \in {"Done", "Errored"} =>
              /\ stage'[r] = stage[r] /\ status'[r] = status[r]
              /\ pending'[r] = pending[r] /\ result'[r] = result[r]]_vars

\* Every call returning or failing, a request ends Done or Errored.
EveryRequestEnds ==
  \A r \in Reqs : IsQuery(r) => <>(stage[r] \in {"Done", "Errored"})

\* Nothing of an errored request runs: it issues no call and writes nothing.
ErroredIsAbsorbing ==
  [][\A r \in Reqs :
       (IsQuery(r) /\ stage[r] = "Errored") =>
         /\ stage'[r] = "Errored"
         /\ calls'[r] = calls[r]
         /\ store' = store]_vars

\* C4: a queryLLM request moves through Validating, Retrieving, Generating,
\* Resolving, RouteBuilding, Assembling in this order, one stage at a time, and,
\* every call returning or failing, ends Done or Errored; once it is Errored no
\* stage of it runs any more.
C4_StagesInOrder ==
  /\ StagesAdvanceInOrder
  /\ EveryRequestEnds
  /\ ErroredIsAbsorbing

\* C5: once generation has given a valid result the request never ends in error.
C5_ResolutionNeverFails ==
  \A r \in Reqs : IsQuery(r) /\ Accepted(r) => stage[r] # "Errored"

SearchFailed(r) == status[r].message = ProcessError("vector search failed")
GenerationFailed(r) ==
  status[r].message \in { ProcessError("Failed to parse"), ProcessError("model call failed") }

\* C6: a failed vector search ends the request with an error status and no
\* model, geocoding, routing or store write call; a failed generation ends it
\* with an error status and no geocoding, routing or store write call.
C6_EarlyFailuresAbort ==
  \A r \in Reqs :
    IsQuery(r) =>
      /\ SearchFailed(r) =>
           /\ stage[r] = "Errored" /\ status[r].code = 500
           /\ calls[r].model = 0 /\ calls[r].geocode = 0
           /\ calls[r].route = 0 /\ calls[r].update = 0
      /\ GenerationFailed(r) =>
           /\ stage[r] = "Errored" /\ status[r].code = 500
           /\ calls[r].geocode = 0 /\ calls[r].route = 0 /\ calls[r].update = 0

\* The vector search of a request failed.
C6_SearchFailure ==
  \E r \in Reqs : IsQuery(r) /\ SearchFailed(r) /\ calls[r].search = 1

\* C7: in a populateCoordinates batch at least 1 second passes between the end
\* of a geocoding call and the start of the next, so that the n-th call starts
\* at least n-1 seconds after the first.
C7_DelayBetweenGeocodingCalls ==
  \A r \in Reqs :
    IsPopulate(r) =>
      /\ gap[r].min >= 1
      /\ gap[r].span >= calls[r].geocode - 1

\* A batch made its second geocoding call after a match and a write.
C7_TwoCallsMade ==
  \E r \in Reqs :
    /\ IsPopulate(r) /\ calls[r].geocode = 2 /\ calls[r].update = 1
    /\ outcomes[r] = << "match" >>

\* C8: an entity that has both coordinates stored is never geocoded, neither by
\* queryLLM nor by populateCoordinates.
C8_GeocodedEntitiesSkipped ==
  \A r \in Reqs :
    /\ IsQuery(r) =>
         \A k \in 1..Len(tasks[r]) :
           tasks[r][k].pc = "geocode" =>
             tasks[r][k].lat = NULL \/ tasks[r][k].lon = NULL
    /\ (IsPopulate(r) /\ pending[r] = "geocode") =>
         LacksCoordinates(clients[r][idx[r]].ID)

Ids(items) == { items[k].id : k \in 1..Len(items) }

\* C9: a populateCoordinates batch never ends in error, and when it ends every
\* client was geocoded once and is in updated if the geocoder matched, else in
\* failed.
C9_BatchAlwaysCompletes ==
  \A r \in Reqs :
    (IsPopulate(r) /\ Len(clients[r]) > 0) =>
      /\ stage[r] # "Errored"
      /\ stage[r] = "Done" =>
           /\ calls[r].geocode = Len(clients[r])
           /\ Len(outcomes[r]) = Len(clients[r])
           /\ \A k \in 1..Len(clients[r]) :
                /\ outcomes[r][k] = "match" <=> clients[r][k].ID \in Ids(result[r].updated)
                /\ outcomes[r][k] # "match" <=> clients[r][k].ID \in Ids(result[r].failed)

\* C10: with fewer than 2 waypoints the routing engine is never called and the
\* geometry is null; with 2 or more it is called once, with the coordinates of
\* the waypoints in their order.
C10_RoutingCalledOnceFromTwo ==
  \A r \in Reqs :
    IsQuery(r) =>
      /\ stage[r] \in {"Validating", "Retrieving", "Generating", "Resolving"}
           => calls[r].route = 0
      /\ stage[r] \in {"RouteBuilding", "Assembling", "Done"} =>
           IF Len(valid[r]) < 2
             THEN /\ calls[r].route = 0
                  /\ stage[r] # "RouteBuilding" => routeGeometry[r] = "null"
                  /\ stage[r] = "Done" => result[r].routeGeometry = "null"
             ELSE /\ calls[r].route = 1
                  /\ routeArg[r] =
                       [k \in 1..Len(valid[r]) |-> << valid[r][k].lon, valid[r][k].lat >>]
      /\ stage[r] = "Done" => Len(result[r].waypoints) = Len(valid[r])

\* Two waypoints with different coordinates were routed.
C10_TwoWaypointsRouted ==
  \E r \in Reqs :
    /\ IsQuery(r) /\ stage[r] = "Done" /\ Len(result[r].waypoints) = 2
    /\ result[r].waypoints[1].coordinates # result[r].waypoints[2].coordinates
    /\ calls[r].route = 1

\* One waypoint: no routing call.
C10_OneWaypoint ==
  \E r \in Reqs :
    IsQuery(r) /\ stage[r] = "Done" /\ Len(result[r].waypoints) = 1

\* The addresses of a waypoint list, in order.
AddressesOf(ws) == [k \in 1..Len(ws) |-> ws[k].address]

RECURSIVE StopsUpTo(_, _)
\* The encoded addresses 2..n of a list, separated by '|'.
StopsUpTo(as, n) ==
  IF n < 2 THEN ""
  ELSE IF n = 2 THEN EncodeURIComponent(as[2])
  ELSE StopsUpTo(as, n - 1) \o "|" \o EncodeURIComponent(as[n])

\* The directions link for a non-empty list of addresses: origin the first,
\* destination the last, the addresses between them as stops, mode driving.
LinkFor(as) ==
  "https://www.google.com/maps/dir/?api=1"
    \o "&origin=" \o EncodeURIComponent(as[1])
    \o "&destination=" \o EncodeURIComponent(as[Len(as)])
    \o (IF Len(as) > 2 THEN "&waypoints=" \o StopsUpTo(as, Len(as) - 1) ELSE "")
    \o "&travelmode=driving"

NoLinkMessage == "No valid addresses found for mapping"

\* C11: a routing call that fails or finds no route never turns the request
\* into an error: the response is successful, its routeGeometry is null, and
\* its link is the one its waypoints give whatever the routing outcome was.
C11_RoutingFailureAbsorbed ==
  \A r \in Reqs :
    IsQuery(r) =>
      /\ calls[r].route = 1 => stage[r] # "Errored"
      /\ stage[r] = "Done" =>
           /\ status[r].code = 200
           /\ routeGeometry[r] = "null" <=> result[r].routeGeometry = "null"
           /\ result[r].mapsUrl =
                IF Len(result[r].waypoints) = 0 THEN NoLinkMessage
                ELSE LinkFor(AddressesOf(result[r].waypoints))

\* The routing engine was called for two waypoints and gave no geometry.
C11_RouteUnavailable ==
  \E r \in Reqs :
    /\ IsQuery(r) /\ stage[r] = "Done" /\ status[r].code = 200
    /\ calls[r].route = 1 /\ result[r].routeGeometry = "null"
    /\ Len(result[r].waypoints) = 2

\* The entity callback k refers to had both coordinates stored when it was read.
HadCoordinates(t) == t.id # 0 /\ t.geo \in {"none", "null"} /\ t.lat # NULL /\ t.lon # NULL
\* The entity callback k refers to lacked a coordinate and the geocoder gave none.
StayedUnresolved(t) == t.id # 0 /\ t.geo = "null" /\ (t.lat = NULL \/ t.lon = NULL)

\* C13: generation names two entities, one with stored coordinates, one without
\* for which the geocoder finds nothing: the response is successful, has the
\* one waypoint of the first, null geometry, no routing call, and a link whose
\* origin and destination are that address.
C13_OneOfTwoResolved ==
  \A r \in Reqs :
    (/\ IsQuery(r) /\ stage[r] = "Done" /\ Len(tasks[r]) = 2
     /\ \E i, j \in 1..2 :
          /\ i # j /\ tasks[r][i].id # tasks[r][j].id
          /\ HadCoordinates(tasks[r][i]) /\ StayedUnresolved(tasks[r][j]))
    => /\ status[r].code = 200
       /\ Len(result[r].waypoints) = 1
       /\ \E i \in 1..2 :
            /\ HadCoordinates(tasks[r][i])
            /\ result[r].waypoints[1].id = tasks[r][i].id
            /\ result[r].mapsUrl =
                 "https://www.google.com/maps/dir/?api=1"
                   \o "&origin=" \o EncodeURIComponent(tasks[r][i].address)
                   \o "&destination=" \o EncodeURIComponent(tasks[r][i].address)
                   \o "&travelmode=driving"
       /\ result[r].routeGeometry = "null"
       /\ calls[r].route = 0

\* The callback could not resolve its entity: no row, or no coordinates found.
Unresolved(t) == t.id = 0 \/ (t.geo = "null" /\ ~IsValidAddress(t))

\* C14: in a successful response every referenced entity that could not be
\* resolved is reported in a failed-item entry.
C14_NoSilentDrop ==
  \A r \in Reqs :
    (IsQuery(r) /\ stage[r] = "Done") =>
      \A k \in 1..Len(tasks[r]) :
        Unresolved(tasks[r][k]) =>
          \E f \in 1..Len(result[r].failed) :
            result[r].failed[f].id = response[r].relevantAddresses[k].addressId.s

\* External calls of a request that have been issued and have not returned.
InFlight(r) ==
  (IF pending[r] \in {"search", "model", "select", "route"} THEN 1 ELSE 0)
    + NumAt(tasks[r], "geocode") + NumAt(tasks[r], "update")

\* C16: a queryLLM request has at most one external call in flight.
C16_OneCallInFlight ==
  \A r \in Reqs : IsQuery(r) => InFlight(r) <= 1

\* C17: the geocoding calls of a queryLLM resolution are issued one after
\* another, each at least 1 second after the previous one ended.
C17_ResolutionGeocodesSequentially ==
  \A r \in Reqs :
    IsQuery(r) =>
      /\ NumAt(tasks[r], "geocode") <= 1
      /\ calls[r].geocode >= 2 => gap[r].min >= 1

\* The callbacks whose entity exists and has both coordinates after resolution.
Resolved(ts) == SelectSeq(ts, LAMBDA t : t.id # 0 /\ t.lat # NULL /\ t.lon # NULL)

\* C18: the waypoints of a successful response are the referenced entities that
\* exist and have both coordinates after resolution, whatever their values, in
\* the order of relevantAddresses.
C18_WaypointsAreResolvedEntities ==
  \A r \in Reqs :
    (IsQuery(r) /\ stage[r] = "Done") =>
      result[r].waypoints =
        [k \in 1..Len(Resolved(tasks[r])) |->
           [id |-> Resolved(tasks[r])[k].id,
            companyName |-> Resolved(tasks[r])[k].companyName,
            address |-> Resolved(tasks[r])[k].address,
            coordinates |-> << Resolved(tasks[r])[k].lat, Resolved(tasks[r])[k].lon >>]]

\* C12: the link of a response with at least one waypoint has the address of
\* the first waypoint as origin, of the last as destination, the waypoints
\* between them, in their order, as stops, and the travel mode driving; a
\* response without waypoints carries the text 'No valid addresses found for
\* mapping' in its place.
C12_LinkFromWaypoints ==
  link.mapsUrl # "unset" =>
    IF Len(link.validAddresses) = 0
      THEN link.mapsUrl = NoLinkMessage
      ELSE link.mapsUrl = LinkFor(AddressesOf(link.validAddresses))

\* A link with two different stops between origin and destination.
C12_LinkWithStops ==
  /\ link.mapsUrl # "unset"
  /\ Len(link.validAddresses) = 4
  /\ link.validAddresses[2] # link.validAddresses[3]
  /\ link.validAddresses[1] # link.validAddresses[4]

\* C12 as stated: every waypoint list gets such a link.
C12_AlwaysALink ==
  link.mapsUrl # "unset" =>
    /\ Len(link.validAddresses) > 0
    /\ link.mapsUrl = LinkFor(AddressesOf(link.validAddresses))

\* Both findClosest requests got their embedding and their rows.
BothRanked ==
  /\ ranking.app.pc = "done" /\ ranking.del.pc = "done"
  /\ ranking.prompt # ""
  /\ ranking.app.reply.message \notin
       { FindClosestError("embedding failed"), FindClosestError("select failed") }
  /\ ranking.del.reply.message \notin
       { FindClosestError("embedding failed"), FindClosestError("query failed") }

\* C15: on the same rows and the same query the ranking delegated to the store
\* and the ranking in the application reply alike: the same best row, or both
\* an empty result, which is not an error.
C15_RankingsAgree ==
  BothRanked =>
    /\ ranking.app.reply.code = 200
    /\ ranking.del.reply.code = 200
    /\ ranking.app.reply.id = ranking.del.reply.id

\* The application-side request has just scanned the rows and replied.
Scanned ==
  /\ ranking.app.pc = "done" /\ ranking.del.pc = "start" /\ ranking.prompt # ""
  /\ ranking.app.reply.message \notin
       { FindClosestError("embedding failed"), FindClosestError("select failed") }

\* The stored vector of row i, when the row has a readable one.
Readable(i) == ranking.addrs[i].EMBEDDING.t \in {"json", "quoted"}
VectorOf(i) == ranking.addrs[i].EMBEDDING.v
\* The rows left after those with a missing, unreadable or wrong-length vector.
Candidates ==
  { i \in 1..Len(ranking.addrs) :
      Readable(i) /\ Len(VectorOf(i)) = Len(ranking.app.userEmbedding.num) }
\* The candidates whose cosine similarity with the query exists.
Comparable ==
  { i \in Candidates : SumSq(VectorOf(i)) > 0 /\ SumSq(ranking.app.userEmbedding.num) > 0 }
\* For each comparable row the dot product with the query and the squared norm.
Measures ==
  [i \in Comparable |->
     [dot |-> SumOver(ranking.app.userEmbedding.num, VectorOf(i), 1, Len(VectorOf(i))),
      norm2 |-> SumSq(VectorOf(i))]]
\* cos(query, row i) < cos(query, row j), compared as dot_i * |v_j| < dot_j * |v_i|.
LowerCos(m, i, j) ==
  LET a == m[i].dot  b == m[j].dot
      x == a * a * m[j].norm2  y == b * b * m[i].norm2
  IN CASE a < 0 /\ b >= 0 -> TRUE
       [] a >= 0 /\ b < 0 -> FALSE
       [] a >= 0 /\ b >= 0 -> x < y
       [] OTHER -> x > y

\* C19: application-side findClosest replies normally whatever the stored
\* vectors are; it never returns a row whose vector is missing, unreadable or
\* of another length than the query; among the other rows whose similarity
\* with the query exists it returns the first, in scan order, of those with the
\* highest similarity; and null when there is no such row.
C19_FirstBestCandidate ==
  Scanned =>
    /\ ranking.app.reply.code = 200
    /\ ranking.app.reply.id = 0 <=> Comparable = {}
    /\ ranking.app.reply.id # 0 =>
         /\ ranking.app.reply.id \in Comparable
         /\ LET m == Measures
            IN \A j \in Comparable :
                 /\ ~LowerCos(m, ranking.app.reply.id, j)
                 /\ j < ranking.app.reply.id => LowerCos(m, j, ranking.app.reply.id)

\* Two rows of equal, highest similarity, and the first is returned.
C19_TieKeepsFirst ==
  /\ Scanned /\ ranking.app.reply.id = 1
  /\ Comparable = {1, 2}
  /\ VectorOf(1) # VectorOf(2)
  /\ ~LowerCos(Measures, 1, 2) /\ ~LowerCos(Measures, 2, 1)

\* C19 as stated: a row is returned whenever a row with a readable vector of
\* the query's length remains.
C19_BestOfRemaining ==
  Scanned =>
    /\ ranking.app.reply.code = 200
    /\ ranking.app.reply.id = 0 <=> Candidates = {}
    /\ ranking.app.reply.id # 0 => ranking.app.reply.id \in Candidates

\* The first Dim components of the provider's vector, each divided by their
\* norm; unchanged when they are all 0.
Prepared(embedding) ==
  LET n == IF Len(embedding) < 768 THEN Len(embedding) ELSE 768
      first == [k \in 1..n |-> embedding[k]]
  IN [num |-> first, den2 |-> IF SumSq(first) = 0 THEN 1 ELSE SumSq(first)]

FindClosestVectorPrepared ==
  /\ ranking.app.userEmbedding # NoVector =>
       ranking.app.userEmbedding = Prepared(ranking.embedding)
  /\ ranking.del.userEmbedding # NoVector =>
       ranking.del.userEmbedding = Prepared(ranking.embedding)

\* What the geocoder answers for the address of entity e.
GeocoderResult(e) == Nominatim(FullAddress(BaseRow(e)))

\* Request r has had a match from the geocoder for entity e.
Geocoded(r, e) ==
  \/ /\ IsQuery(r)
     /\ \E k \in 1..Len(tasks[r]) : tasks[r][k].id = e /\ tasks[r][k].geo = "coords"
  \/ /\ IsPopulate(r)
     /\ \E k \in 1..Len(outcomes[r]) : clients[r][k].ID = e /\ outcomes[r][k] = "match"

\* The UPDATE of request r for entity e has returned.
Wrote(r, e) ==
  \/ /\ IsQuery(r)
     /\ \E k \in 1..Len(tasks[r]) :
          tasks[r][k].id = e /\ tasks[r][k].geo = "coords" /\ tasks[r][k].pc = "done"
  \/ /\ IsPopulate(r)
     /\ \E k \in 1..Len(results[r].updated) : results[r].updated[k].id = e

\* The request has replied.
Replied(r) == status[r].code # 0

\* Every response that lists entity e gives it the coordinates c.
ResponsesReport(e, c) ==
  \A r \in Reqs :
    /\ \A k \in 1..Len(result[r].waypoints) :
         result[r].waypoints[k].id = e =>
           result[r].waypoints[k].coordinates = << c.lat, c.lon >>
    /\ \A k \in 1..Len(result[r].updated) :
         result[r].updated[k].id = e =>
           result[r].updated[k].lat = c.lat /\ result[r].updated[k].lon = c.lon

\* Entity e was resolved by both requests at once: both were under way
\* together, both had the geocoder's match for e, and a write has returned.
RacedFor(e) ==
  /\ \A r \in Reqs : Geocoded(r, e)
  /\ \E r \in Reqs : Wrote(r, e)

\* C21: when two requests (queryLLM or populateCoordinates) resolve the same
\* entity without coordinates at the same time, then once both have replied the
\* entity's stored coordinates are the geocoder's result for its address, and
\* every response that lists the entity reports these coordinates, whatever the
\* order of the geocoding calls and the writes.
C21_RacingWritersAgree ==
  \A e \in IDs :
    (RacedFor(e) /\ \A r \in Reqs : Replied(r)) =>
      /\ store[e].Latitude = GeocoderResult(e).lat
      /\ store[e].Longitude = GeocoderResult(e).lon
      /\ ResponsesReport(e, GeocoderResult(e))

\* Both requests have written entity 2 and replied 200, a queryLLM request
\* listing it and a populateCoordinates request reporting it as updated.
C21_BothWroteSameEntity ==
  /\ \A r \in Reqs : Wrote(r, 2) /\ status[r].code = 200
  /\ \E r \in Reqs : \E k \in 1..Len(result[r].waypoints) : result[r].waypoints[k].id = 2
  /\ \E r \in Reqs : \E k \in 1..Len(result[r].updated) : result[r].updated[k].id = 2

\* The columns of a row other than its coordinates.
Descriptive(row) ==
  [ID |-> row.ID, CompanyName |-> row.CompanyName, Address |-> row.Address,
   PostalCode |-> row.PostalCode, City |-> row.City, Country |-> row.Country]

\* Request r has an UPDATE under way for entity e, issued after the geocoder's
\* match for e.
Writing(r, e) ==
  \/ /\ IsQuery(r)
     /\ \E k \in 1..Len(tasks[r]) : tasks[r][k].id = e /\ tasks[r][k].pc = "update"
  \/ /\ IsPopulate(r) /\ pending[r] = "update"
     /\ clients[r][idx[r]].ID = e

\* The row of entity e holds a latitude and a longitude.
HoldsCoordinates(e) == store[e].Latitude # NULL /\ store[e].Longitude # NULL

\* C22: the only change a request makes to the store is to write the latitude
\* and longitude of an entity for which one of its geocoding calls returned a
\* match: the descriptive columns of every row, the rows that already hold
\* coordinates, and the rows no write of a request is under way for after a
\* match, stay as they are.
C22_OnlyMatchedCoordinatesWritten ==
  [][\A e \in IDs :
       /\ Descriptive(store'[e]) = Descriptive(store[e])
       /\ store'[e] # store[e] =>
            /\ ~HoldsCoordinates(e)
            /\ \E r \in Reqs : Writing(r, e)]_vars

\* The same, a row counting as holding coordinates only when neither is 0.
WritesOnlyAfterMatch ==
  [][\A e \in IDs :
       /\ Descriptive(store'[e]) = Descriptive(store[e])
       /\ store'[e] # store[e] =>
            /\ NeedsGeocoding(store[e].Latitude, store[e].Longitude)
            /\ \E r \in Reqs : Writing(r, e)]_vars

\* The findClosest handlers leave the rows they rank as they are.
FindClosestWritesNothing ==
  [][ranking'.addrs = ranking.addrs /\ ranking'.embedding = ranking.embedding]_vars

====
